---- MODULE Spec2Model ----
(***************************************************************************)
(* Model of the IKEA catalogue scraper: the batch runner of               *)
(* scraping/scrape_products.py (ScrapeProducts.scrape and                 *)
(* __scrape_product), the JSON store of scraping/file_manager.py, the     *)
(* price parser and record assembly of one product, and the pagination    *)
(* formula of scraping/scrape_urls.py.                                    *)
(*                                                                         *)
(* Python values are modelled as records [kind, n, s]: None, str (s is    *)
(* the sequence of character codes), float (n is the value in hundredths),*)
(* list and dict (n is the number of entries).  A dict with string keys   *)
(* (a product record, a reference) is a function from its keys to values. *)
(***************************************************************************)
EXTENDS Integers, Sequences, FiniteSets, TLC

\* Bounds of the model.
MaxRefs == 5
ChunkSize == 2

\* range(5) of the retry loop.
MaxAttempts == 5

VARIABLES
    products_urls,      \* the reference list read from input_path
    i,                  \* index of the current group (1-based; the code's i + 1)
    k,                  \* position of the current reference inside its group
    attempt,            \* attempts already made for the current reference
    products_metadata,  \* the batch of the current group
    already_scraped,    \* list of product_id values recorded in this run
    output_file,        \* the file at output_path
    unscraped_file,     \* the file products_unscraped.json
    data,               \* the object a FileManager write has loaded / will dump
    pc,                 \* position of the process inside scrape
    error,              \* the exception that left scrape, "none" if none did
    alive,              \* FALSE once the process has been terminated
    resumed,            \* TRUE in a run started again on the remaining references
    persisted,          \* the store's records when the run was started again
    write_base,         \* the target file's records when the current write began
    exhausted,          \* history: <<url, attempts>> of references that hit the ceiling
    resolved,           \* history: the identifiers pages resolved to in this run
    last,               \* history: outcome of the last finished attempt
    flushed,            \* history: the batches handed to save/extend in this run, concatenated
    flushes,            \* history: the groups whose flush has completed in this run, in order
    outcomes,           \* history: <<url, outcome, identifier>> of the references handled in this run
    session,            \* the browser session of the run: "none", "open" or "closed"
    page,               \* the product page one extraction works on
    price,              \* what __get_price returned for it
    product,            \* the record under assembly
    number_of_products, \* the item total of one category
    pages_number,       \* what __get_number_of_pages returned for it
    phase,              \* position inside the single-product / single-category runs
    site,               \* what the browser meets at product_url during one attempt
    ops,                \* history: the work one attempt has done, in order
    found,              \* the locals of __scrape_product holding the extracted values
    available_sections, \* what __check_sections_availability returned
    slides,             \* the accordion items of the categories page
    categories,         \* the category list __scrape_categories_data returns
    page_number,        \* the listing page being visited
    n_products,         \* the cards counted in the current category
    progress_bar,       \* the count the progress bar shows
    visited             \* history: the listing pages visited and what they showed

runnerVars == <<products_urls, i, k, attempt, products_metadata, already_scraped,
                output_file, unscraped_file, data, pc, error, alive, resumed,
                persisted, write_base, exhausted, resolved, last, flushed, flushes,
                outcomes, session>>
productVars == <<page, price, product>>
pagesVars == <<number_of_products, pages_number>>
\* The variables of the single-page, single-category runs.
attemptVars == <<site, ops, found, available_sections>>
discoveryVars == <<categories, page_number, n_products, progress_bar, visited>>
categoriesVars == <<slides>>
stepVars == <<attemptVars, discoveryVars, categoriesVars>>
unitVars == <<productVars, pagesVars, phase, stepVars>>
vars == <<runnerVars, unitVars>>

----------------------------------------------------------------------------
\* Python values

None == [kind |-> "none", n |-> 0, s |-> <<>>]
Str(t) == [kind |-> "str", n |-> 0, s |-> t]
Float(h) == [kind |-> "float", n |-> h, s |-> <<>>]
List(len) == [kind |-> "list", n |-> len, s |-> <<>>]
Dict(len) == [kind |-> "dict", n |-> len, s |-> <<>>]

\* Truth value of a Python object, as `if x:` tests it.
Truthy(v) ==
    CASE v.kind = "none" -> FALSE
      [] v.kind = "str" -> v.s # <<>>
      [] v.kind = "float" -> v.n # 0
      [] OTHER -> v.n > 0

\* dict.get(key): None when the key is absent.
PyGet(d, key) == IF key \in DOMAIN d THEN d[key] ELSE None

\* d[key] = v
PySet(d, key, v) == [x \in (DOMAIN d) \cup {key} |-> IF x = key THEN v ELSE d[x]]

\* `v in lst` for a list.
InList(v, lst) == \E j \in 1..Len(lst) : lst[j] = v

Min(a, b) == IF a <= b THEN a ELSE b

\* math.ceil(a / b) for b > 0.
CeilDiv(a, b) == -((-a) \div b)

----------------------------------------------------------------------------
\* Files

Absent == [exists |-> FALSE, valid |-> FALSE, products |-> <<>>]
\* What open(path, "w") leaves until json.dump has finished: no parseable JSON.
Truncated == [exists |-> TRUE, valid |-> FALSE, products |-> <<>>]
Stored(objs) == [exists |-> TRUE, valid |-> TRUE, products |-> objs]

----------------------------------------------------------------------------
\* The references of the input file (the output of ScrapeUrls.__scrape_products):
\* every reference carries url, category and sub_category.
Ref(j) == [url |-> Str(<<j>>), category |-> Str(<<1>>), sub_category |-> Str(<<2>>)]

GroupsFloor(urls) ==
    [g \in 1..(Len(urls) \div ChunkSize) |->
        SubSeq(urls, (g - 1) * ChunkSize + 1, Min(g * ChunkSize, Len(urls)))]

\* products_urls[i:i+1000] for i in range(0, ceil(total/1000)*1000, 1000),
\* with the chunk length scaled down to ChunkSize.
Groups(urls) ==
    [g \in 1..CeilDiv(Len(urls), ChunkSize) |->
        SubSeq(urls, (g - 1) * ChunkSize + 1, Min(g * ChunkSize, Len(urls)))]

product_data == Groups(products_urls)[i][k]

\* What __get_product_id can return: None (no identifier node), the empty
\* text of an empty node, or an identifier text.
IdDomain == {None, Str(<<>>), Str(<<1>>), Str(<<2>>)}

\* The extracted fields of one page, in the order the record is assembled.
Fields == {"title", "subtitle", "price", "description", "product_id", "designer",
           "informations_about_product", "items_in_the_set", "sizes", "image_path"}

\* `if title: product["title"] = title`, one test per field.
KeepFieldAlways(v) == TRUE
KeepField(v) == Truthy(v)

AddIf(d, key, v) == IF KeepField(v) THEN PySet(d, key, v) ELSE d

\* The record assembly at the end of __scrape_product.
AssembleProduct(ext) ==
    AddIf(AddIf(AddIf(AddIf(AddIf(AddIf(AddIf(AddIf(AddIf(AddIf(<<>>,
        "title", ext["title"]),
        "subtitle", ext["subtitle"]),
        "price", ext["price"]),
        "description", ext["description"]),
        "product_id", ext["product_id"]),
        "designer", ext["designer"]),
        "informations_about_product", ext["informations_about_product"]),
        "items_in_the_set", ext["items_in_the_set"]),
        "sizes", ext["sizes"]),
        "image_path", ext["image_path"])

\* The three carried keys scrape adds to the returned record.
WithCarried(rec, ref) ==
    PySet(PySet(PySet(rec, "url", PyGet(ref, "url")),
                "category", PyGet(ref, "category")),
          "sub_category", PyGet(ref, "sub_category"))

\* `if product_id in already_scraped: return None`
IsAlreadyScrapedNever(product_id, scraped) == FALSE
IsAlreadyScrapedPresentOnly(product_id, scraped) ==
    Truthy(product_id) /\ InList(product_id, scraped)
IsAlreadyScraped(product_id, scraped) == InList(product_id, scraped)

\* already_scraped.append(product.get("product_id")), reached only when the
\* attempt returned a record (`if product is None: continue` comes first).
ScrapedAfterAlways(scraped, skip, rec, product_id) == Append(scraped, product_id)
ScrapedAfterTwice(scraped, skip, rec, product_id) ==
    IF skip THEN scraped
    ELSE Append(Append(scraped, PyGet(rec, "product_id")), PyGet(rec, "product_id"))
ScrapedAfter(scraped, skip, rec, product_id) ==
    IF skip THEN scraped ELSE Append(scraped, PyGet(rec, "product_id"))

\* The fields of a page of which only the identifier is of interest to the runner.
OnlyId(product_id) == [f \in Fields |-> IF f = "product_id" THEN product_id ELSE None]

NoAttempt == [outcome |-> "none", pid |-> None, calls |-> 0]

\* No page loaded.
NoPage == [span |-> "missing", em |-> "missing", integer |-> <<>>, decimal |-> <<>>,
           fields |-> OnlyId(None)]

\* The sections __check_sections_availability looks for, in its order.
Sections == {"details", "included-products", "measurement"}

\* The fields __scrape_product reads from the base page, product_id aside.
BaseFields == {"title", "subtitle", "price", "description", "designer", "image_path"}
\* No attempt under way: nothing met, done or extracted.
NoSite == [loads |-> TRUE, product_id |-> None, base |-> [f \in BaseFields |-> None],
           panel |-> [sec \in Sections |->
                        [present |-> FALSE, fault |-> "none", filled |-> FALSE]]]
IdleAttempt ==
    /\ site = NoSite /\ ops = <<>> /\ found = OnlyId(None)
    /\ available_sections = {}
IdleDiscovery ==
    /\ categories = <<>> /\ page_number = 0 /\ n_products = 0
    /\ progress_bar = 0 /\ visited = <<>>
IdleCategories == slides = <<>>
IdleSteps == IdleAttempt /\ IdleDiscovery /\ IdleCategories

----------------------------------------------------------------------------
\* ScrapeProducts.scrape

Init ==
    /\ \E n \in 0..MaxRefs : products_urls = [j \in 1..n |-> Ref(j)]
    /\ i = 1 /\ k = 1 /\ attempt = 0
    /\ products_metadata = <<>>
    /\ already_scraped = <<>>
    /\ output_file = Absent
    /\ unscraped_file \in {Absent, Stored(<<>>)}
    /\ data = <<>>
    /\ pc = "start"
    /\ error = "none"
    /\ alive = TRUE
    /\ resumed = FALSE
    /\ persisted = <<>>
    /\ write_base = <<>>
    /\ exhausted = <<>>
    /\ resolved = {}
    /\ last = NoAttempt
    /\ flushed = <<>> /\ flushes = <<>>
    /\ outcomes = <<>> /\ session = "none"
    /\ page = NoPage /\ price = None /\ product = <<>>
    /\ number_of_products = 0 /\ pages_number = 0
    /\ phase = "idle"
    /\ IdleSteps

\* Lines 358-382: read the input, open the session, load the first page.
scrape_begin ==
    /\ pc = "start" /\ alive
    /\ \E loaded \in BOOLEAN :
         IF Len(products_urls) = 0 \/ ~loaded
         THEN /\ pc' = "aborted"
              /\ error' = IF Len(products_urls) = 0 THEN "IndexError"
                                                    ELSE "WebDriverException"
              /\ UNCHANGED <<i, k, attempt, products_metadata, already_scraped>>
         ELSE /\ pc' = "retry"
              /\ i' = 1 /\ k' = 1 /\ attempt' = 0
              /\ products_metadata' = <<>>
              /\ already_scraped' = <<>>
              /\ error' = error
    /\ resolved' = {}
    /\ last' = NoAttempt
    /\ flushed' = <<>>
    /\ flushes' = <<>>
    /\ outcomes' = <<>>
    /\ session' = "open"
    /\ UNCHANGED <<products_urls, output_file, unscraped_file, data, alive,
                   resumed, persisted, write_base, exhausted>>
    /\ UNCHANGED unitVars

AdvanceAlwaysSave ==
    /\ attempt' = 0
    /\ IF k < Len(Groups(products_urls)[i])
       THEN k' = k + 1 /\ pc' = "retry"
       ELSE k' = k /\ pc' = "save_open"

\* The end of one pass of `for product_data in group`: the next reference of
\* the group, or the flush of the group (save for the first, extend after it).
Advance ==
    /\ attempt' = 0
    /\ IF k < Len(Groups(products_urls)[i])
       THEN k' = k + 1 /\ pc' = "retry"
       ELSE k' = k /\ pc' = IF i = 1 THEN "save_open" ELSE "extend_read"

\* The end of one pass of `for i, group in enumerate(...)`.
NextGroup ==
    IF i < Len(Groups(products_urls))
    THEN /\ i' = i + 1 /\ k' = 1 /\ attempt' = 0
         /\ products_metadata' = <<>>
         /\ pc' = "retry"
    ELSE /\ pc' = "done"
         /\ UNCHANGED <<i, k, attempt, products_metadata>>

\* Lines 389-399: __scrape_product raises (navigation or page capture fails);
\* the fifth failure leaves the loop through its else branch.
AttemptRaises ==
    /\ pc = "retry" /\ alive
    /\ attempt' = attempt + 1
    /\ last' = [outcome |-> "raised", pid |-> None, calls |-> attempt + 1]
    /\ IF attempt + 1 = MaxAttempts
       THEN /\ pc' = "add_read"
            /\ exhausted' = Append(exhausted, <<PyGet(product_data, "url"), attempt + 1>>)
            /\ outcomes' = Append(outcomes, <<PyGet(product_data, "url"), "exhausted", None>>)
       ELSE UNCHANGED <<pc, exhausted, outcomes>>
    /\ UNCHANGED <<products_urls, i, k, products_metadata, already_scraped,
                   output_file, unscraped_file, data, error, alive, resumed,
                   persisted, write_base, resolved, session>>
    /\ UNCHANGED <<flushed, flushes, unitVars>>

\* Lines 256-350 and 401-410: the page loads and resolves to product_id;
\* __scrape_product returns None (skip) or the assembled record.
AttemptReturns ==
    /\ pc = "retry" /\ alive
    /\ \E product_id \in IdDomain :
         LET skip == IsAlreadyScraped(product_id, already_scraped)
             rec == AssembleProduct(OnlyId(product_id))
         IN /\ already_scraped' = ScrapedAfter(already_scraped, skip, rec, product_id)
            /\ products_metadata' =
                 IF skip THEN products_metadata
                 ELSE Append(products_metadata, WithCarried(rec, product_data))
            /\ last' = [outcome |-> IF skip THEN "skip" ELSE "record", pid |-> product_id,
                         calls |-> attempt + 1]
            /\ outcomes' = Append(outcomes, <<PyGet(product_data, "url"),
                                              IF skip THEN "skip" ELSE "record", product_id>>)
            /\ resolved' = resolved \cup {product_id}
    /\ Advance
    /\ UNCHANGED <<products_urls, i, output_file, unscraped_file, data, error,
                   alive, resumed, persisted, write_base, exhausted, session>>
    /\ UNCHANGED <<flushed, flushes, unitVars>>

\* FileManager.add, lines 30-33: load the ledger and append the reference.
add_read ==
    /\ pc = "add_read" /\ alive
    /\ IF unscraped_file.exists /\ unscraped_file.valid
       THEN /\ data' = Append(unscraped_file.products, product_data)
            /\ write_base' = unscraped_file.products
            /\ pc' = "add_open"
            /\ error' = error
       ELSE /\ pc' = "aborted"
            /\ error' = IF unscraped_file.exists THEN "JSONDecodeError"
                                                 ELSE "FileNotFoundError"
            /\ UNCHANGED <<data, write_base>>
    /\ UNCHANGED <<products_urls, i, k, attempt, products_metadata, already_scraped,
                   output_file, unscraped_file, alive, resumed, persisted,
                   exhausted, resolved, last>>
    /\ UNCHANGED <<flushed, flushes, unitVars>>
    /\ UNCHANGED <<outcomes, session>>

\* FileManager.add, line 35: open(file_path, "w") truncates the ledger.
add_open ==
    /\ pc = "add_open" /\ alive
    /\ unscraped_file' = Truncated
    /\ pc' = "add_dump"
    /\ UNCHANGED <<products_urls, i, k, attempt, products_metadata, already_scraped,
                   output_file, data, error, alive, resumed, persisted, write_base,
                   exhausted, resolved, last>>
    /\ UNCHANGED <<flushed, flushes, unitVars>>
    /\ UNCHANGED <<outcomes, session>>

\* FileManager.add, line 36, then `continue`.
add_dump ==
    /\ pc = "add_dump" /\ alive
    /\ unscraped_file' = Stored(data)
    /\ data' = <<>>
    /\ write_base' = <<>>
    /\ Advance
    /\ UNCHANGED <<products_urls, i, products_metadata, already_scraped,
                   output_file, error, alive, resumed, persisted, exhausted,
                   resolved, last>>
    /\ UNCHANGED <<flushed, flushes, unitVars>>
    /\ UNCHANGED <<outcomes, session>>

\* FileManager.save, line 25: open(file_path, "w") creates or truncates the store.
save_open ==
    /\ pc = "save_open" /\ alive
    /\ write_base' = output_file.products
    /\ data' = products_metadata
    /\ output_file' = Truncated
    /\ pc' = "save_dump"
    /\ UNCHANGED <<products_urls, i, k, attempt, products_metadata, already_scraped,
                   unscraped_file, error, alive, resumed, persisted, exhausted,
                   resolved, last>>
    /\ UNCHANGED <<flushed, flushes, unitVars>>
    /\ UNCHANGED <<outcomes, session>>

\* FileManager.save, line 26.
save_dump ==
    /\ pc = "save_dump" /\ alive
    /\ output_file' = Stored(data)
    /\ flushed' = flushed \o products_metadata
    /\ flushes' = Append(flushes, i)
    /\ data' = <<>>
    /\ write_base' = <<>>
    /\ NextGroup
    /\ UNCHANGED <<products_urls, already_scraped, unscraped_file, error, alive,
                   resumed, persisted, exhausted, resolved, last>>
    /\ UNCHANGED unitVars
    /\ UNCHANGED <<outcomes, session>>

\* FileManager.extend, lines 40-43: load the store and extend it by the batch.
extend_read ==
    /\ pc = "extend_read" /\ alive
    /\ IF output_file.exists /\ output_file.valid
       THEN /\ data' = output_file.products \o products_metadata
            /\ write_base' = output_file.products
            /\ pc' = "extend_open"
            /\ error' = error
       ELSE /\ pc' = "aborted"
            /\ error' = IF output_file.exists THEN "JSONDecodeError"
                                              ELSE "FileNotFoundError"
            /\ UNCHANGED <<data, write_base>>
    /\ UNCHANGED <<products_urls, i, k, attempt, products_metadata, already_scraped,
                   output_file, unscraped_file, alive, resumed, persisted,
                   exhausted, resolved, last>>
    /\ UNCHANGED <<flushed, flushes, unitVars>>
    /\ UNCHANGED <<outcomes, session>>

\* FileManager.extend, line 45.
extend_open ==
    /\ pc = "extend_open" /\ alive
    /\ output_file' = Truncated
    /\ pc' = "extend_dump"
    /\ UNCHANGED <<products_urls, i, k, attempt, products_metadata, already_scraped,
                   unscraped_file, data, error, alive, resumed, persisted,
                   write_base, exhausted, resolved, last>>
    /\ UNCHANGED <<flushed, flushes, unitVars>>
    /\ UNCHANGED <<outcomes, session>>

\* FileManager.extend, line 46.
extend_dump ==
    /\ pc = "extend_dump" /\ alive
    /\ output_file' = Stored(data)
    /\ flushed' = flushed \o products_metadata
    /\ flushes' = Append(flushes, i)
    /\ data' = <<>>
    /\ write_base' = <<>>
    /\ NextGroup
    /\ UNCHANGED <<products_urls, already_scraped, unscraped_file, error, alive,
                   resumed, persisted, exhausted, resolved, last>>
    /\ UNCHANGED unitVars
    /\ UNCHANGED <<outcomes, session>>

\* The process is terminated from outside (there is no other cancellation).
\* One termination per behaviour is modelled.
Kill ==
    /\ alive /\ ~resumed
    /\ pc \notin {"start", "done", "aborted"}
    /\ alive' = FALSE
    /\ UNCHANGED <<products_urls, i, k, attempt, products_metadata, already_scraped,
                   output_file, unscraped_file, data, pc, error, resumed, persisted,
                   write_base, exhausted, resolved, last>>
    /\ UNCHANGED <<flushed, flushes, unitVars>>
    /\ UNCHANGED <<outcomes, session>>

\* A process terminated right after the flush of a group is started again:
\* scrape is called on the references of the groups not yet flushed, with
\* the same output_path.
Resume ==
    /\ ~alive /\ ~resumed
    /\ pc = "retry" /\ k = 1 /\ attempt = 0 /\ i > 1
    /\ products_urls' = SubSeq(products_urls, (i - 1) * ChunkSize + 1, Len(products_urls))
    /\ persisted' = output_file.products
    /\ resumed' = TRUE
    /\ alive' = TRUE
    /\ pc' = "start"
    /\ UNCHANGED <<i, k, attempt, products_metadata, already_scraped, output_file,
                   unscraped_file, data, error, write_base, exhausted, resolved, last,
                   flushed, flushes>>
    /\ UNCHANGED unitVars
    /\ UNCHANGED <<outcomes, session>>

Next ==
    \/ scrape_begin
    \/ AttemptRaises
    \/ AttemptReturns
    \/ add_read
    \/ add_open
    \/ add_dump
    \/ save_open
    \/ save_dump
    \/ extend_read
    \/ extend_open
    \/ extend_dump
    \/ Kill
    \/ Resume

Spec == Init /\ [][Next]_vars

----------------------------------------------------------------------------
\* One product page: __get_price and the record assembly

MaxTextLen == 3

\* Character codes of the node texts: the digits 1 and 9, and 10 for one
\* character that float() does not accept (a letter, a separator).
Alphabet == {1, 9, 10}
Texts == UNION {[1..n -> Alphabet] : n \in 0..MaxTextLen}

\* How far one structural variant (tag "span" or "em") of the price block
\* matches: the chain down to the notranslate span is not found ("missing"),
\* it is found without the integer and the decimal node ("no_nodes"), without
\* one of them, or with both ("full").
Shapes == {"missing", "no_nodes", "no_integer", "no_decimal", "full"}

RECURSIVE DigitsValue(_)
DigitsValue(t) ==
    IF t = <<>> THEN 0 ELSE 10 * DigitsValue(SubSeq(t, 1, Len(t) - 1)) + t[Len(t)]

\* float(text) on a text of the alphabet: the number it denotes, or the
\* ValueError branch (`except: x = .0`) for the empty text and for a text
\* holding a character that is no digit.
IsNumeric(t) == t # <<>> /\ \A j \in 1..Len(t) : t[j] \in 0..9
FloatOrZero(t) == IF IsNumeric(t) THEN DigitsValue(t) ELSE 0

\* integer + decimal / 100, in hundredths.
SumTenths(integer, decimal) == integer * 100 + decimal * 10
Sum(integer, decimal) == integer * 100 + decimal

\* The `for tag in ["span", "em"]` loop: a variant is taken only when the
\* whole chain and both text nodes are found (any lookup that fails raises
\* and moves on to the next tag); when no variant is taken the loop's else
\* branch returns None.
TakenVariant(pg) ==
    IF pg.span = "full" THEN "span" ELSE IF pg.em = "full" THEN "em" ELSE "none"

get_price(pg) ==
    IF TakenVariant(pg) = "none" THEN None
    ELSE Float(Sum(FloatOrZero(pg.integer), FloatOrZero(pg.decimal)))

\* What the extractors other than __get_price can return: a text (empty or
\* not) or None; a non-empty mapping or None (__get_informations_about_product);
\* a list (empty or not) or None (__get_items_in_the_set); a path or None
\* (__get_image).
TextValues == {None, Str(<<>>), Str(<<1>>)}
FieldCombinations ==
    [title : TextValues, subtitle : TextValues, price : {None},
     description : TextValues, product_id : TextValues, designer : TextValues,
     informations_about_product : {None, Dict(1)},
     items_in_the_set : {None, List(0), List(1)},
     sizes : TextValues,
     image_path : {None, Str(<<1>>)}]

\* Pages with every shape and text of the price block, no other field found.
PricePages ==
    [span : Shapes, em : Shapes, integer : Texts, decimal : Texts,
     fields : {OnlyId(None)}]

\* Pages with every combination of the other fields, and a price block that
\* is missing, priced 199.99, or has texts that are not numbers.
FieldPages ==
    [span : {"missing", "full"}, em : {"missing"},
     integer : {<<1, 9, 9>>, <<10>>}, decimal : {<<9, 9>>, <<10>>},
     fields : FieldCombinations]

\* The values extracted from the page, price included.
Extracted == [f \in Fields |-> IF f = "price" THEN price ELSE page.fields[f]]

InitProduct ==
    /\ products_urls = <<Ref(1)>>
    /\ i = 1 /\ k = 1 /\ attempt = 0
    /\ products_metadata = <<>>
    /\ already_scraped = <<>>
    /\ output_file = Absent
    /\ unscraped_file = Absent
    /\ data = <<>>
    /\ pc = "idle"
    /\ error = "none"
    /\ alive = TRUE
    /\ resumed = FALSE
    /\ persisted = <<>>
    /\ write_base = <<>>
    /\ exhausted = <<>>
    /\ resolved = {}
    /\ last = NoAttempt
    /\ flushed = <<>> /\ flushes = <<>>
    /\ outcomes = <<>> /\ session = "none"
    /\ page \in PricePages \cup FieldPages
    /\ price = None /\ product = <<>>
    /\ number_of_products = 0 /\ pages_number = 0
    /\ phase = "page"
    /\ IdleSteps

\* Line 266: price = ScrapeProducts.__get_price(soup)
scrape_product_price ==
    /\ phase = "page"
    /\ price' = get_price(page)
    /\ phase' = "priced"
    /\ UNCHANGED <<runnerVars, pagesVars, stepVars, page, product>>

\* Lines 319-350: the record is assembled and returned.
scrape_product_assemble ==
    /\ phase = "priced"
    /\ product' = AssembleProduct(Extracted)
    /\ phase' = "assembled"
    /\ UNCHANGED <<runnerVars, pagesVars, stepVars, page, price>>

\* Lines 406-409: scrape adds the carried keys and appends the record to the batch.
scrape_carry ==
    /\ phase = "assembled"
    /\ product' = WithCarried(product, product_data)
    /\ products_metadata' = Append(products_metadata, product')
    /\ phase' = "carried"
    /\ UNCHANGED <<products_urls, i, k, attempt, already_scraped, output_file,
                   unscraped_file, data, pc, error, alive, resumed, persisted,
                   write_base, exhausted, resolved, last, flushed, flushes, outcomes,
                   session>>
    /\ UNCHANGED <<pagesVars, stepVars, page, price>>

NextProduct ==
    \/ scrape_product_price
    \/ scrape_product_assemble
    \/ scrape_carry

SpecProduct == InitProduct /\ [][NextProduct]_vars

----------------------------------------------------------------------------
\* One category: __get_number_of_pages

MaxTotalItems == 150

\* math.ceil((number_of_products - 12) / 48) + 1
get_number_of_pages_floor(n) == ((n - 12) \div 48) + 1
get_number_of_pages(n) == CeilDiv(n - 12, 48) + 1

InitPages ==
    /\ products_urls = <<>>
    /\ i = 1 /\ k = 1 /\ attempt = 0
    /\ products_metadata = <<>>
    /\ already_scraped = <<>>
    /\ output_file = Absent
    /\ unscraped_file = Absent
    /\ data = <<>>
    /\ pc = "idle"
    /\ error = "none"
    /\ alive = TRUE
    /\ resumed = FALSE
    /\ persisted = <<>>
    /\ write_base = <<>>
    /\ exhausted = <<>>
    /\ resolved = {}
    /\ last = NoAttempt
    /\ flushed = <<>> /\ flushes = <<>>
    /\ outcomes = <<>> /\ session = "none"
    /\ page = NoPage /\ price = None /\ product = <<>>
    /\ number_of_products \in 0..MaxTotalItems
    /\ pages_number = 0
    /\ phase = "count"
    /\ IdleSteps

\* Line 144: pages_number = ScrapeUrls.__get_number_of_pages(number_of_products[i])
scrape_products_pages ==
    /\ phase = "count"
    /\ pages_number' = get_number_of_pages(number_of_products)
    /\ phase' = "pages"
    /\ UNCHANGED <<runnerVars, productVars, stepVars, number_of_products>>

NextPages == scrape_products_pages

SpecPages == InitPages /\ [][NextPages]_vars

----------------------------------------------------------------------------
\* One attempt: __scrape_product, statement by statement

\* What can go wrong inside one panel: the navigation, the lookup of the
\* toggle, the click, or the parse of the expanded panel.
Faults == {"none", "get", "find", "click", "parse"}

PanelStates ==
    {[present |-> FALSE, fault |-> "none", filled |-> FALSE]}
    \cup [present : {TRUE}, fault : Faults, filled : {TRUE}]
    \cup [present : {TRUE}, fault : {"none"}, filled : {FALSE}]

\* Base pages with every base field found, and with some of them missing or empty.
BasePages ==
    {[title |-> Str(<<1>>), subtitle |-> Str(<<1>>), price |-> Float(19999),
      description |-> Str(<<1>>), designer |-> Str(<<1>>), image_path |-> Str(<<1>>)],
     [title |-> None, subtitle |-> Str(<<>>), price |-> None,
      description |-> Str(<<1>>), designer |-> None, image_path |-> None]}

Sites ==
    [loads : BOOLEAN, product_id : IdDomain, base : BasePages,
     panel : [Sections -> PanelStates]]

\* The Already-Scraped lists an attempt is called with.
ScrapedLists == {<<>>, <<None>>, <<Str(<<1>>)>>, <<Str(<<1>>), None>>}

\* The local each panel's value is assigned to.
FieldOf(section) ==
    CASE section = "details" -> "informations_about_product"
      [] section = "included-products" -> "items_in_the_set"
      [] OTHER -> "sizes"

\* Lines 291 and 306 call driver.get(product_url); the details block does not.
RenavigatesAlways(section) == TRUE
Renavigates(section) == section # "details"

\* An exception is raised inside the try block of the panel.
Failed(section) ==
    LET fault == site.panel[section].fault
    IN \/ fault \in {"find", "click"}
       \/ fault = "get" /\ Renavigates(section)

\* The statements of one panel's try block that are executed.
SectionOps(section) ==
    LET fault == site.panel[section].fault
        nav == IF Renavigates(section) THEN <<<<"get", section>>>> ELSE <<>>
    IN IF fault = "get" /\ Renavigates(section) THEN nav
       ELSE IF fault = "find" THEN nav \o <<<<"find", section>>>>
       ELSE IF fault = "click" THEN nav \o <<<<"find", section>>, <<"click", section>>>>
       ELSE nav \o <<<<"find", section>>, <<"click", section>>, <<"parse", section>>>>

\* What the panel's getter returns: None when its own try fails or nothing is
\* found, an empty value when the panel is empty.
SectionValue(section) ==
    LET st == site.panel[section]
    IN IF st.fault = "parse" THEN None
       ELSE CASE section = "details" -> IF st.filled THEN Dict(1) ELSE None
              [] section = "included-products" -> IF st.filled THEN List(1) ELSE List(0)
              [] OTHER -> IF st.filled THEN Str(<<1>>) ELSE Str(<<>>)

\* `except: pass`: the statement after a panel's block is the next `if`.
AfterSectionStopOnFailure(section, failed) ==
    IF failed THEN "assemble"
    ELSE CASE section = "details" -> "included-products"
           [] section = "included-products" -> "measurement"
           [] OTHER -> "assemble"
AfterSection(section, failed) ==
    CASE section = "details" -> "included-products"
      [] section = "included-products" -> "measurement"
      [] OTHER -> "assemble"

outsideAttempt == <<runnerVars, pagesVars, page, price, discoveryVars, categoriesVars>>

InitAttempt ==
    /\ products_urls = <<Ref(1)>>
    /\ i = 1 /\ k = 1 /\ attempt = 0
    /\ products_metadata = <<>>
    /\ already_scraped \in ScrapedLists
    /\ output_file = Absent
    /\ unscraped_file = Absent
    /\ data = <<>>
    /\ pc = "idle"
    /\ error = "none"
    /\ alive = TRUE
    /\ resumed = FALSE
    /\ persisted = <<>>
    /\ write_base = <<>>
    /\ exhausted = <<>>
    /\ resolved = {}
    /\ last = NoAttempt
    /\ flushed = <<>> /\ flushes = <<>>
    /\ outcomes = <<>> /\ session = "open"
    /\ page = NoPage /\ price = None /\ product = <<>>
    /\ number_of_products = 0 /\ pages_number = 0
    /\ phase = "call"
    /\ site \in Sites
    /\ ops = <<>> /\ found = OnlyId(None)
    /\ available_sections = {}
    /\ IdleDiscovery /\ IdleCategories

\* Line 256: driver.get(product_url); an exception here leaves the attempt.
scrape_product_get ==
    /\ phase = "call"
    /\ ops' = Append(ops, <<"get", "base">>)
    /\ phase' = IF site.loads THEN "loaded" ELSE "raised"
    /\ UNCHANGED <<outsideAttempt, product, site, found, available_sections>>

scrape_product_check_after_base ==
    /\ phase = "loaded"
    /\ found' = [f \in Fields |->
                    IF f = "product_id" THEN site.product_id
                    ELSE IF f \in BaseFields THEN site.base[f] ELSE found[f]]
    /\ ops' = ops \o <<<<"product_id", "base">>, <<"fields", "base">>, <<"image", "base">>>>
    /\ phase' = IF IsAlreadyScraped(site.product_id, already_scraped)
                THEN "skipped" ELSE "base"
    /\ UNCHANGED <<outsideAttempt, product, site, available_sections>>

\* Lines 257-262: the identifier is parsed and looked up in already_scraped.
scrape_product_check ==
    /\ phase = "loaded"
    /\ found' = [found EXCEPT !["product_id"] = site.product_id]
    /\ ops' = Append(ops, <<"product_id", "base">>)
    /\ phase' = IF IsAlreadyScraped(site.product_id, already_scraped)
                THEN "skipped" ELSE "base"
    /\ UNCHANGED <<outsideAttempt, product, site, available_sections>>

\* Lines 264-274: the base fields, the image download, the available sections.
scrape_product_base ==
    /\ phase = "base"
    /\ found' = [f \in Fields |-> IF f \in BaseFields THEN site.base[f] ELSE found[f]]
    /\ ops' = ops \o <<<<"fields", "base">>, <<"image", "base">>>>
    /\ available_sections' = {sec \in Sections : site.panel[sec].present}
    /\ phase' = "details"
    /\ UNCHANGED <<outsideAttempt, product, site>>

\* `if section in available_sections: try: ... except: pass`
VisitSection(section) ==
    /\ IF section \in available_sections
       THEN /\ ops' = ops \o SectionOps(section)
            /\ found' = IF Failed(section) THEN found
                        ELSE [found EXCEPT ![FieldOf(section)] = SectionValue(section)]
            /\ phase' = AfterSection(section, Failed(section))
       ELSE /\ UNCHANGED <<ops, found>>
            /\ phase' = AfterSection(section, FALSE)
    /\ UNCHANGED <<outsideAttempt, product, site, available_sections>>

\* Lines 276-287.
scrape_product_details ==
    /\ phase = "details"
    /\ VisitSection("details")
\* Lines 289-302.
scrape_product_included_products ==
    /\ phase = "included-products"
    /\ VisitSection("included-products")
\* Lines 304-317.
scrape_product_measurement ==
    /\ phase = "measurement"
    /\ VisitSection("measurement")

\* Lines 319-350: the record is assembled from the locals and returned.
scrape_product_return ==
    /\ phase = "assemble"
    /\ product' = AssembleProduct(found)
    /\ phase' = "returned"
    /\ UNCHANGED <<outsideAttempt, attemptVars>>

NextAttempt ==
    \/ scrape_product_get
    \/ scrape_product_check
    \/ scrape_product_base
    \/ scrape_product_details
    \/ scrape_product_included_products
    \/ scrape_product_measurement
    \/ scrape_product_return

SpecAttempt == InitAttempt /\ [][NextAttempt]_vars

----------------------------------------------------------------------------
\* Discovery: ScrapeUrls.__scrape_products

MaxCategories == 2

\* The listing shows 12 items on its first page and 48 more on each later
\* page: the layout __get_number_of_pages is written for.
FirstPageSize == 12
PageSize == 48

\* The item totals a category page reports: one page, one full page and one
\* item more, one further page and one item more.
Totals == {0, 2, 13, 61}

Category(j) == [sub_category_name |-> Str(<<j, j>>), name |-> Str(<<j>>), url |-> Str(<<j>>)]

\* The cards a listing page of a category with `total` items shows.
CardsOnPage(total, pg) ==
    IF pg = 1 THEN Min(total, FirstPageSize)
    ELSE Min(total - FirstPageSize - (pg - 2) * PageSize, PageSize)

\* What a visit of a listing page meets: the navigation raises, the list
\* container is missing, the cards are listed, or the first card has no link.
PageOutcomes == {"unreachable", "missing", "listed", "first_link_missing"}

\* Lines 166-177: one reference per card whose link is found.
PageRefs(cat, pg, outcome, count) ==
    LET first == IF outcome = "first_link_missing" THEN 2 ELSE 1
    IN [x \in 1..(count - first + 1) |->
           [url |-> Str(<<cat, pg, x + first - 1>>),
            category |-> PyGet(categories[cat], "name"),
            sub_category |-> PyGet(categories[cat], "sub_category_name")]]

outsideDiscovery == <<k, attempt, products_metadata, already_scraped, output_file,
                      unscraped_file, data, pc, error, alive, resumed, persisted,
                      write_base, exhausted, resolved, last, flushed, flushes, outcomes,
                      productVars, attemptVars, categoriesVars>>

InitDiscovery ==
    /\ products_urls = <<>>
    /\ i = 1 /\ k = 1 /\ attempt = 0
    /\ products_metadata = <<>>
    /\ already_scraped = <<>>
    /\ output_file = Absent
    /\ unscraped_file = Absent
    /\ data = <<>>
    /\ pc = "idle"
    /\ error = "none"
    /\ alive = TRUE
    /\ resumed = FALSE
    /\ persisted = <<>>
    /\ write_base = <<>>
    /\ exhausted = <<>>
    /\ resolved = {}
    /\ last = NoAttempt
    /\ flushed = <<>> /\ flushes = <<>>
    /\ outcomes = <<>> /\ session = "none"
    /\ page = NoPage /\ price = None /\ product = <<>>
    /\ number_of_products = <<>> /\ pages_number = 0
    /\ phase = "begin"
    /\ IdleAttempt /\ IdleCategories
    /\ \E n \in 0..MaxCategories : categories = [j \in 1..n |-> Category(j)]
    /\ page_number = 0 /\ n_products = 0 /\ progress_bar = 0 /\ visited = <<>>

\* Lines 116-129: the browser is started and sent to the first category.
scrape_products_begin ==
    /\ phase = "begin"
    /\ session' = "open"
    /\ phase' = IF categories = <<>> THEN "raised" ELSE "count"
    /\ UNCHANGED <<outsideDiscovery, products_urls, i, pagesVars, discoveryVars>>

\* Lines 132-140: the totals are collected and the progress bar is created;
\* a category page without total raises.
scrape_products_count ==
    /\ phase = "count"
    /\ \/ /\ number_of_products' \in [1..Len(categories) -> Totals]
          /\ phase' = "category"
       \/ /\ phase' = "raised"
          /\ UNCHANGED number_of_products
    /\ progress_bar' = 0
    /\ i' = 1
    /\ UNCHANGED <<outsideDiscovery, products_urls, session, pages_number,
                   categories, page_number, n_products, visited>>

\* Lines 142-146: the next category, or the end of the loop.
scrape_products_category ==
    /\ phase = "category"
    /\ IF i > Len(categories)
       THEN /\ phase' = "quit"
            /\ UNCHANGED <<pages_number, n_products, page_number>>
       ELSE /\ pages_number' = get_number_of_pages(number_of_products[i])
            /\ n_products' = 0
            /\ page_number' = 1
            /\ phase' = IF pages_number' >= 1 THEN "page" ELSE "category_end"
    /\ UNCHANGED <<outsideDiscovery, products_urls, i, session, number_of_products,
                   categories, progress_bar, visited>>

\* Lines 147-177: one listing page. `continue` after a missing container
\* goes on with the next page.
VisitPage(stop_on_missing) ==
    \E outcome \in PageOutcomes :
        LET count == CardsOnPage(number_of_products[i], page_number)
            shown == outcome \in {"listed", "first_link_missing"}
            leave == \/ page_number >= pages_number
                     \/ stop_on_missing /\ outcome = "missing"
        IN /\ visited' = Append(visited, [cat |-> i, page |-> page_number,
                                          outcome |-> outcome,
                                          cards |-> IF shown THEN count ELSE 0])
           /\ IF shown
              THEN /\ progress_bar' = progress_bar + count
                   /\ n_products' = n_products + count
                   /\ products_urls' =
                          products_urls \o PageRefs(i, page_number, outcome, count)
              ELSE UNCHANGED <<progress_bar, n_products, products_urls>>
           /\ IF outcome = "unreachable"
              THEN phase' = "raised" /\ UNCHANGED page_number
              ELSE IF leave
                   THEN phase' = "category_end" /\ UNCHANGED page_number
                   ELSE phase' = "page" /\ page_number' = page_number + 1
           /\ UNCHANGED <<outsideDiscovery, i, session, pagesVars, categories>>

scrape_products_visit_break ==
    /\ phase = "page"
    /\ VisitPage(TRUE)

scrape_products_visit ==
    /\ phase = "page"
    /\ VisitPage(FALSE)

\* Line 179: progress_bar.update(number_of_products[i] - n_products)
scrape_products_category_end ==
    /\ phase = "category_end"
    /\ progress_bar' = progress_bar + (number_of_products[i] - n_products)
    /\ i' = i + 1
    /\ phase' = "category"
    /\ UNCHANGED <<outsideDiscovery, products_urls, session, pagesVars,
                   categories, page_number, n_products, visited>>

\* Lines 181-183.
scrape_products_quit ==
    /\ phase = "quit"
    /\ session' = "closed"
    /\ phase' = "returned"
    /\ UNCHANGED <<outsideDiscovery, products_urls, i, pagesVars, discoveryVars>>

NextDiscovery ==
    \/ scrape_products_begin
    \/ scrape_products_count
    \/ scrape_products_category
    \/ scrape_products_visit
    \/ scrape_products_category_end
    \/ scrape_products_quit

SpecDiscovery == InitDiscovery /\ [][NextDiscovery]_vars

----------------------------------------------------------------------------
\* The category list: ScrapeUrls.__scrape_categories_data

MaxSlides == 2
MaxChildren == 2

\* The hrefs met on the categories page.
Urls == {1, 2}

\* The href sequences of the <li> entries of one accordion item.
ChildUrlSeqs == UNION {[1..m -> Urls] : m \in 0..MaxChildren}

\* Accordion item j: its heading, its first link, its <li> entries in
\* document order.
Slide(j, u, hrefs) ==
    [name |-> Str(<<j>>), url |-> Str(<<u>>),
     children |-> [c \in DOMAIN hrefs |->
                      [name |-> Str(<<j, c>>), url |-> Str(<<hrefs[c]>>)]]]

\* Line 63: if category_url == sub_category_url
IsParentUrlNever(category_url, sub_category_url) == FALSE
IsParentUrl(category_url, sub_category_url) == category_url = sub_category_url

\* Lines 56-70 for the first n <li> entries of a slide.
RECURSIVE SlideCategories(_, _)
SlideCategories(slide, n) ==
    IF n = 0 THEN <<>>
    ELSE LET rest == SlideCategories(slide, n - 1)
             category == slide.children[n]
         IN IF IsParentUrl(category.url, slide.url) THEN rest
            ELSE Append(rest, [sub_category_name |-> slide.name,
                               name |-> category.name,
                               url |-> category.url])

outsideCategories == <<products_urls, k, attempt, products_metadata, already_scraped,
                       output_file, unscraped_file, data, pc, error, alive, resumed,
                       persisted, write_base, exhausted, resolved, last, flushed, flushes,
                       outcomes, session, productVars, pagesVars, attemptVars,
                       slides, page_number, n_products, progress_bar, visited>>

InitCategories ==
    /\ products_urls = <<>>
    /\ i = 1 /\ k = 1 /\ attempt = 0
    /\ products_metadata = <<>>
    /\ already_scraped = <<>>
    /\ output_file = Absent
    /\ unscraped_file = Absent
    /\ data = <<>>
    /\ pc = "idle"
    /\ error = "none"
    /\ alive = TRUE
    /\ resumed = FALSE
    /\ persisted = <<>>
    /\ write_base = <<>>
    /\ exhausted = <<>>
    /\ resolved = {}
    /\ last = NoAttempt
    /\ flushed = <<>> /\ flushes = <<>>
    /\ outcomes = <<>> /\ session = "none"
    /\ page = NoPage /\ price = None /\ product = <<>>
    /\ number_of_products = 0 /\ pages_number = 0
    /\ phase = "slides"
    /\ IdleAttempt /\ IdleDiscovery
    /\ \E n \in 0..MaxSlides :
         \E u \in [1..n -> Urls], hrefs \in [1..n -> ChildUrlSeqs] :
             slides = [j \in 1..n |-> Slide(j, u[j], hrefs[j])]

\* Lines 55-70: one pass of `for slide in slides`.
scrape_categories_slide ==
    /\ phase = "slides"
    /\ i <= Len(slides)
    /\ categories' = categories \o SlideCategories(slides[i], Len(slides[i].children))
    /\ i' = i + 1
    /\ UNCHANGED <<outsideCategories, phase>>

\* Line 72: return categories
scrape_categories_return ==
    /\ phase = "slides"
    /\ i > Len(slides)
    /\ phase' = "returned"
    /\ UNCHANGED <<outsideCategories, i, categories>>

NextCategories ==
    \/ scrape_categories_slide
    \/ scrape_categories_return

SpecCategories == InitCategories /\ [][NextCategories]_vars

----------------------------------------------------------------------------
\* Helpers of the properties

\* The entries of a stored list that carry the url u.
WithUrl(objs, u) == {j \in 1..Len(objs) : PyGet(objs[j], "url") = u}

IsPrefix(a, b) == Len(a) <= Len(b) /\ SubSeq(b, 1, Len(a)) = a

\* The process is not inside FileManager.add.
LedgerQuiescent == pc \notin {"add_read", "add_open", "add_dump"}

\* C1: a reference whose extraction raised on every attempt was attempted
\* exactly 5 times, is written exactly once to the failure ledger and has no
\* record in the batch or in the output store.
C1_QuarantinedExactlyOnce ==
    LedgerQuiescent =>
        \A e \in 1..Len(exhausted) :
            /\ exhausted[e][2] = 5
            /\ Cardinality(WithUrl(unscraped_file.products, exhausted[e][1])) = 1
            /\ WithUrl(products_metadata, exhausted[e][1]) = {}
            /\ WithUrl(output_file.products, exhausted[e][1]) = {}

\* C2: no error raised while a reference is handled leaves scrape: the run
\* is only ever aborted by an error raised before the first reference.
C2_ExhaustionIsNotFatal ==
    pc = "aborted" => error \in {"IndexError", "WebDriverException"}

\* C3: a process terminated right after the flush of group 1 leaves a store
\* holding exactly group 1's records; once the run has been resumed and has
\* completed the remaining groups, the store holds the records persisted
\* before the termination followed by those of the remaining groups, none
\* lost and none duplicated.
C3_CheckpointDurability ==
    /\ (~alive /\ ~resumed /\ pc = "retry" /\ i = 2 /\ k = 1 /\ attempt = 0) =>
          (output_file.valid /\ output_file.products = flushed)
    /\ (resumed /\ pc = "done") =>
          (output_file.valid /\ output_file.products = persisted \o flushed)

\* C4: a process that dies inside a FileManager write leaves a file that
\* parses and still holds every record it held when the write began.
C4_WritesAreAtomic ==
    /\ (~alive /\ pc \in {"add_open", "add_dump"}) =>
          (unscraped_file.valid /\ IsPrefix(write_base, unscraped_file.products))
    /\ (~alive /\ pc \in {"save_dump", "extend_open", "extend_dump"}) =>
          (output_file.valid /\ IsPrefix(write_base, output_file.products))

\* C5: no two records of the output store carry the same present product_id.
C5_StoredIdsUnique ==
    \A a, b \in 1..Len(output_file.products) :
        (/\ a # b
         /\ "product_id" \in DOMAIN output_file.products[a]
         /\ "product_id" \in DOMAIN output_file.products[b])
        => output_file.products[a]["product_id"] # output_file.products[b]["product_id"]

\* The run is complete, the store holds two records with distinct present
\* identifiers, and the last reference was skipped as a duplicate.
C5_Witness ==
    /\ pc = "done"
    /\ last.outcome = "skip" /\ Truthy(last.pid)
    /\ \E a, b \in 1..Len(output_file.products) :
         /\ a # b
         /\ "product_id" \in DOMAIN output_file.products[a]
         /\ "product_id" \in DOMAIN output_file.products[b]

\* C6: when a page resolves to a (present) product identifier that an earlier
\* page of the run resolved to, the attempt is a skip: no record is added, the
\* reference is not quarantined and the Already-Scraped Set is left unchanged.
C6_DuplicateIsSkipped ==
    [][(/\ pc = "retry" /\ alive /\ alive'
        /\ last'.outcome \in {"skip", "record"}
        /\ Truthy(last'.pid)
        /\ last'.pid \in resolved)
       => (/\ last'.outcome = "skip"
           /\ products_metadata' = products_metadata
           /\ already_scraped' = already_scraped
           /\ Len(already_scraped') = Len(already_scraped)
           /\ unscraped_file' = unscraped_file
           /\ exhausted' = exhausted
           /\ pc' \notin {"add_read", "add_open", "add_dump"})]_vars

\* An identifier has been skipped twice in a row: the second and the third
\* reference that resolved to it.
C6_Witness ==
    /\ last.outcome = "skip" /\ Truthy(last.pid)
    /\ Len(already_scraped) = 1
    /\ pc = "retry" /\ i = 2 /\ k = 2

\* C7: for every non-negative item total the page count is
\* ceil((total - 12) / 48) + 1, the one integer p with
\* 48 (p - 2) < total - 12 <= 48 (p - 1); it is 1 for 12, 2 for 13 and for 60,
\* and at least 1 from 0 upward.
C7_PageCount ==
    phase = "pages" =>
        /\ 48 * (pages_number - 2) < number_of_products - 12
        /\ number_of_products - 12 <= 48 * (pages_number - 1)
        /\ pages_number >= 1
        /\ (number_of_products = 12 => pages_number = 1)
        /\ (number_of_products = 13 => pages_number = 2)
        /\ (number_of_products = 60 => pages_number = 2)

\* The page count of 13 items has been computed.
C7_Witness == phase = "pages" /\ number_of_products = 13 /\ pages_number = 2

\* The price block is located with the integer text "199" and the decimal text "99".
PriceCase ==
    /\ phase # "page"
    /\ TakenVariant(page) # "none"
    /\ page.integer = <<1, 9, 9>> /\ page.decimal = <<9, 9>>

\* C8 as stated: integer "199" and decimal "99" give 200.99 (20099 hundredths).
C8_PriceAsStated == PriceCase => price = Float(20099)

\* C8: integer "199" and decimal "99" give integer + decimal / 100 = 199.99
\* (19999 hundredths).
C8_Price == PriceCase => price = Float(19999)

\* The record of a page priced "199" and "99" has been assembled with its price.
C8_Witness == PriceCase /\ phase = "carried" /\ PyGet(product, "price") = Float(19999)

\* The first variant of the price block whose chain is located at all.
FirstLocatedVariant(pg) ==
    IF pg.span # "missing" THEN "span" ELSE IF pg.em # "missing" THEN "em" ELSE "none"

\* The price C9 states for a page: none when no variant of the block is
\* located or both text nodes are missing; otherwise the integer part plus the
\* decimal part over 100, a missing or non-numeric part counting as 0.
ClaimedPrice(pg) ==
    LET v == FirstLocatedVariant(pg)
        shape == IF v = "span" THEN pg.span ELSE pg.em
        integer == IF shape \in {"no_integer", "no_nodes"} THEN 0 ELSE FloatOrZero(pg.integer)
        decimal == IF shape \in {"no_decimal", "no_nodes"} THEN 0 ELSE FloatOrZero(pg.decimal)
    IN IF v = "none" \/ shape = "no_nodes" THEN None
       ELSE Float(integer * 100 + decimal)

\* C9: a missing or non-numeric integer (decimal) text counts as 0 in
\* integer + decimal / 100; with both missing, or no variant of the price
\* block matching, the record has no price key.
C9_MissingPartsDefaultToZero ==
    phase \in {"assembled", "carried"} =>
        IF Truthy(ClaimedPrice(page))
        THEN PyGet(product, "price") = ClaimedPrice(page)
        ELSE "price" \notin DOMAIN product

\* C10: the record added to the batch has exactly the keys of the fields
\* whose extraction yielded a value (a non-empty one), with that value, plus
\* url, category and sub_category, and no key of it has a null value.
C10_SparseRecord ==
    phase = "carried" =>
        /\ DOMAIN product =
             {f \in Fields : Extracted[f] # None /\ Truthy(Extracted[f])}
                \cup {"url", "category", "sub_category"}
        /\ \A f \in Fields \cap DOMAIN product : product[f] = Extracted[f]
        /\ \A key \in DOMAIN product : product[key] # None
        /\ products_metadata = <<product>>
        /\ \A r \in 1..Len(products_metadata) :
             \A key \in DOMAIN products_metadata[r] : products_metadata[r][key] # None

\* A record with some fields present and some absent has been added to the batch.
C10_Witness ==
    /\ phase = "carried"
    /\ "title" \in DOMAIN product /\ "designer" \notin DOMAIN product
    /\ page.fields["subtitle"] = Str(<<>>) /\ page.fields["sizes"] = None
    /\ "price" \in DOMAIN product /\ "url" \in DOMAIN product

----------------------------------------------------------------------------
\* Ordering, sessions, retries

UrlsOf(objs) == [j \in 1..Len(objs) |-> PyGet(objs[j], "url")]

\* The urls of the references an attempt returned a record for, in the order handled.
RECURSIVE RecordedUrls(_)
RecordedUrls(outs) ==
    IF outs = <<>> THEN <<>>
    ELSE LET rest == RecordedUrls(SubSeq(outs, 1, Len(outs) - 1))
             o == outs[Len(outs)]
         IN IF o[2] = "record" THEN Append(rest, o[1]) ELSE rest

\* The group whose flush has just completed, 0 when the process is elsewhere.
FlushedGroup ==
    IF pc = "done" THEN i
    ELSE IF pc = "retry" /\ k = 1 /\ attempt = 0 /\ i > 1 THEN i - 1
    ELSE 0

\* C11: references are handled in input order, and right after the flush of
\* group g every reference of groups 1..g has been handled (recorded, skipped
\* or quarantined) and the store holds exactly the records of the recorded
\* ones, in input order (the first flush overwrote, the later ones appended).
C11_OrderedCheckpoints ==
    pc \notin {"start", "idle"} =>
        /\ Len(outcomes) <= Len(products_urls)
        /\ \A j \in 1..Len(outcomes) : outcomes[j][1] = PyGet(products_urls[j], "url")
        /\ pc = "retry" => Len(outcomes) = (i - 1) * ChunkSize + k - 1
        /\ FlushedGroup > 0 =>
             /\ Len(outcomes) = Min(FlushedGroup * ChunkSize, Len(products_urls))
             /\ \A j \in 1..Len(outcomes) : outcomes[j][2] \in {"record", "skip", "exhausted"}
             /\ output_file.valid
             /\ UrlsOf(output_file.products) = RecordedUrls(outcomes)
             /\ \A j \in 1..Len(outcomes) :
                  outcomes[j][2] = "exhausted" =>
                      Cardinality(WithUrl(unscraped_file.products, outcomes[j][1])) = 1

\* Three groups have been flushed; the store holds three records, one
\* reference was skipped and one was quarantined.
C11_Witness ==
    /\ pc = "done" /\ i = 3
    /\ Len(output_file.products) = 3
    /\ \E j \in 1..Len(outcomes) : outcomes[j][2] = "skip"
    /\ \E j \in 1..Len(outcomes) : outcomes[j][2] = "exhausted"

\* C12: whenever scrape has returned or raised, the browser session it
\* opened has been closed.
C12_SessionClosed ==
    (pc \in {"done", "aborted"} /\ session # "none") => session = "closed"

\* C13: the attempt that returns a record after k - 1 failed attempts is the
\* k-th and last attempt of its reference (1 <= k <= 5): the reference is not
\* in the failure ledger, exactly one entry (the record's product_id) is added
\* to the Already-Scraped Set and exactly one record to the batch; an attempt
\* that raises changes neither the set nor the batch.
C13_SuccessAfterRetries ==
    [][(pc = "retry" /\ alive /\ alive') =>
        /\ last'.outcome = "record" =>
             /\ last'.calls = attempt + 1 /\ last'.calls \in 1..5
             /\ attempt' = 0 /\ (pc' # "retry" \/ k' # k \/ i' # i)
             /\ Cardinality({j \in 1..Len(outcomes') :
                                outcomes'[j][1] = PyGet(product_data, "url")}) = 1
             /\ pc' \notin {"add_read", "add_open", "add_dump"}
             /\ unscraped_file' = unscraped_file
             /\ WithUrl(unscraped_file'.products, PyGet(product_data, "url")) = {}
             /\ Len(already_scraped') = Len(already_scraped) + 1
             /\ SubSeq(already_scraped', 1, Len(already_scraped)) = already_scraped
             /\ already_scraped'[Len(already_scraped')] =
                    PyGet(products_metadata'[Len(products_metadata')], "product_id")
             /\ Truthy(last'.pid) => already_scraped'[Len(already_scraped')] = last'.pid
             /\ Len(products_metadata') = Len(products_metadata) + 1
             /\ SubSeq(products_metadata', 1, Len(products_metadata)) = products_metadata
             /\ PyGet(products_metadata'[Len(products_metadata')], "url")
                    = PyGet(product_data, "url")
        /\ last'.outcome = "raised" =>
             /\ already_scraped' = already_scraped
             /\ products_metadata' = products_metadata]_vars

\* A reference has been recorded on its third attempt.
C13_Witness ==
    /\ last.outcome = "record" /\ last.calls = 3
    /\ Len(already_scraped) = 1 /\ Len(products_metadata) = 1

\* The records of the store that carry no product_id.
WithoutId(objs) == {j \in 1..Len(objs) : "product_id" \notin DOMAIN objs[j]}

\* C20 as stated: at most one record without a product_id is ever stored.
C20_AtMostOneRecordWithoutId ==
    Cardinality(WithoutId(output_file.products)) <= 1

\* C20: the duplicate check treats None (no identifier node found) as an
\* ordinary value: at most one product whose identifier is None is recorded
\* in a run, and every later product whose identifier is None is skipped
\* (no record, no quarantine entry).
C20_NoneIdRecordedOnce ==
    pc \notin {"start", "idle"} =>
        /\ Cardinality({j \in 1..Len(outcomes) :
                           outcomes[j][2] = "record" /\ outcomes[j][3] = None}) <= 1
        /\ \A j \in 1..Len(outcomes) :
             (/\ outcomes[j][2] # "exhausted" /\ outcomes[j][3] = None
              /\ \E j0 \in 1..(j - 1) : outcomes[j0][2] = "record" /\ outcomes[j0][3] = None)
             => /\ outcomes[j][2] = "skip"
                /\ WithUrl(products_metadata, outcomes[j][1]) = {}
                /\ WithUrl(output_file.products, outcomes[j][1]) = {}
                /\ WithUrl(unscraped_file.products, outcomes[j][1]) = {}

\* A product without identifier node was recorded and a later one was skipped.
C20_Witness ==
    /\ pc = "done"
    /\ \E j0, j \in 1..Len(outcomes) :
         /\ j0 < j
         /\ outcomes[j0][2] = "record" /\ outcomes[j0][3] = None
         /\ outcomes[j][2] = "skip" /\ outcomes[j][3] = None

----------------------------------------------------------------------------
\* One attempt

\* The sections found on the base page.
Detected == {sec \in Sections : site.panel[sec].present}

\* The sections the attempt has worked on.
Visited == {sec \in Sections : \E j \in DOMAIN ops : ops[j][2] = sec}

Navigations == {j \in DOMAIN ops : ops[j][1] = "get"}

Rank(tag) ==
    CASE tag = "base" -> 0
      [] tag = "details" -> 1
      [] tag = "included-products" -> 2
      [] OTHER -> 3

\* C14: the identifier is parsed right after the first navigation, and an
\* attempt whose identifier is in the Already-Scraped Set returns skip having
\* done nothing else: no navigation, click, image download or field extraction.
C14_SkipBeforeFurtherWork ==
    /\ Len(ops) >= 2 => ops[1] = <<"get", "base">> /\ ops[2] = <<"product_id", "base">>
    /\ phase = "skipped" =>
         /\ InList(site.product_id, already_scraped)
         /\ ops = <<<<"get", "base">>, <<"product_id", "base">>>>
         /\ \A f \in Fields \ {"product_id"} : found[f] = None
         /\ available_sections = {}
         /\ product = <<>>
    /\ phase \in {"base", "details", "included-products", "measurement",
                  "assemble", "returned"} =>
         ~InList(site.product_id, already_scraped)

\* An identifier already in the set was met on a page with all three panels.
C14_Witness ==
    /\ phase = "skipped"
    /\ site.product_id = Str(<<1>>)
    /\ Detected = Sections

\* C15: only detected panels are visited, in the order details,
\* included-products, measurement; the details toggle is clicked without a
\* navigation, the other two toggles right after a navigation of their own;
\* an attempt that returns a record has visited every detected panel and made
\* 1 + [included-products detected] + [measurement detected] navigations.
C15_PanelStateMachine ==
    /\ Visited \subseteq Detected
    /\ \A a, b \in DOMAIN ops : a < b => Rank(ops[a][2]) <= Rank(ops[b][2])
    /\ \A j \in DOMAIN ops :
         /\ ops[j] # <<"get", "details">>
         /\ (ops[j][1] = "click" /\ ops[j][2] # "details") =>
                j >= 3 /\ ops[j - 2] = <<"get", ops[j][2]>>
         /\ ops[j] = <<"click", "details">> =>
                \A n \in Navigations : n < j => ops[n] = <<"get", "base">>
    /\ phase = "returned" =>
         /\ Visited = Detected
         /\ Cardinality(Navigations) =
                1 + (IF "included-products" \in Detected THEN 1 ELSE 0)
                  + (IF "measurement" \in Detected THEN 1 ELSE 0)

\* All three panels were detected and expanded: three navigations.
C15_Witness ==
    /\ phase = "returned"
    /\ Detected = Sections
    /\ \A sec \in Sections : site.panel[sec].fault = "none"
    /\ \A sec \in Sections : \E j \in DOMAIN ops : ops[j] = <<"click", sec>>
    /\ Cardinality(Navigations) = 3

\* C16: a failure inside a panel (navigation, toggle lookup, click, parse)
\* leaves that panel's field out of the record and nothing else: the other
\* detected panels are still visited and their fields recorded, the attempt
\* returns a record with every base field found on the page, and only a
\* failure of the first navigation leaves the attempt by an exception.
C16_PanelFailureIsLocal ==
    /\ phase = "raised" => ops = <<<<"get", "base">>>>
    /\ phase = "returned" =>
         /\ Visited = Detected
         /\ \A sec \in Sections :
              LET st == site.panel[sec] IN
              /\ (st.present /\ st.fault = "none" /\ st.filled)
                     => FieldOf(sec) \in DOMAIN product
              /\ (\/ ~st.present
                  \/ st.fault \in {"find", "click", "parse"}
                  \/ st.fault = "get" /\ sec # "details")
                     => FieldOf(sec) \notin DOMAIN product
         /\ \A f \in BaseFields :
              Truthy(site.base[f]) => f \in DOMAIN product /\ product[f] = site.base[f]
         /\ Truthy(site.product_id) =>
              "product_id" \in DOMAIN product /\ product["product_id"] = site.product_id

\* The details click and the included-products navigation failed; the record
\* still has the measurement panel's field and the base fields.
C16_Witness ==
    /\ phase = "returned"
    /\ site.panel["details"].present /\ site.panel["details"].fault = "click"
    /\ site.panel["included-products"].present
    /\ site.panel["included-products"].fault = "get"
    /\ site.panel["measurement"].present /\ site.panel["measurement"].fault = "none"
    /\ DOMAIN product = BaseFields \cup {"product_id", "sizes"}

----------------------------------------------------------------------------
\* Discovery

\* The totals have been collected and the traversal has begun.
Traversing ==
    /\ phase \in {"category", "page", "category_end", "quit", "returned", "raised"}
    /\ Len(number_of_products) = Len(categories)

\* The pages 1..page count of the categories 1..c, category by category.
RECURSIVE VisitsUpTo(_)
VisitsUpTo(c) ==
    IF c = 0 THEN <<>>
    ELSE VisitsUpTo(c - 1)
         \o [pg \in 1..get_number_of_pages(number_of_products[c]) |-> <<c, pg>>]

VisitedPages == [j \in DOMAIN visited |-> <<visited[j].cat, visited[j].page>>]

\* The references of the first n visits, in visit order.
RECURSIVE CollectedUpTo(_)
CollectedUpTo(n) ==
    IF n = 0 THEN <<>>
    ELSE CollectedUpTo(n - 1)
         \o PageRefs(visited[n].cat, visited[n].page, visited[n].outcome, visited[n].cards)

\* The cards of the first n visits.
RECURSIVE SeenUpTo(_)
SeenUpTo(n) == IF n = 0 THEN 0 ELSE SeenUpTo(n - 1) + visited[n].cards

\* C17: the visits are, category by category, the pages 1..page count in
\* ascending order; a page without list container adds no reference and the
\* traversal goes on: when the loop ends every page of every category has
\* been visited, and the collected references are those of the other pages
\* in visit order.
C17_TraversalSkipsMissingPages ==
    Traversing =>
        /\ IsPrefix(VisitedPages, VisitsUpTo(Len(categories)))
        /\ phase \in {"quit", "returned"} => VisitedPages = VisitsUpTo(Len(categories))
        /\ products_urls = CollectedUpTo(Len(visited))
        /\ \A j \in DOMAIN visited :
             visited[j].outcome = "missing" =>
                 \A r \in DOMAIN products_urls :
                     SubSeq(products_urls[r].url.s, 1, 2) # <<visited[j].cat, visited[j].page>>

\* The first page of the first category had no container; its second page
\* and the pages of the second category were visited and their references kept.
C17_Witness ==
    /\ phase = "returned"
    /\ Len(categories) = 2
    /\ Len(visited) >= 3
    /\ visited[1].outcome = "missing"
    /\ visited[2].cat = 1 /\ visited[2].page = 2 /\ visited[2].outcome = "listed"
    /\ visited[Len(visited)].cat = 2 /\ visited[Len(visited)].outcome = "listed"
    /\ Len(products_urls) >= 2

\* C18: at the end of a category, and of the run, the progress bar shows the
\* number of items discovered so far.
C18_ProgressCountsDiscovered ==
    (Traversing /\ phase \in {"category", "quit", "returned"}) =>
        progress_bar = SeenUpTo(Len(visited))

----------------------------------------------------------------------------
\* The category list

\* The <li> entries of slide j whose link is not the slide's own link.
Kept(j) == {c \in DOMAIN slides[j].children :
               slides[j].children[c].url # slides[j].url}

\* The number of kept entries of the slides before slide j.
RECURSIVE KeptBefore(_)
KeptBefore(j) == IF j <= 1 THEN 0 ELSE KeptBefore(j - 1) + Cardinality(Kept(j - 1))

\* C19: a child whose URL equals its parent's URL is not in the category
\* list; every other child is in it exactly once, in document order, with
\* its parent's name as sub_category_name.
C19_CategorySkipRule ==
    phase = "returned" =>
        /\ Len(categories) = KeptBefore(Len(slides) + 1)
        /\ \A j \in DOMAIN slides : \A c \in Kept(j) :
             categories[KeptBefore(j) + Cardinality({d \in Kept(j) : d <= c})]
                 = [sub_category_name |-> slides[j].name,
                    name |-> slides[j].children[c].name,
                    url |-> slides[j].children[c].url]
        /\ \A j \in DOMAIN slides : \A x \in DOMAIN categories :
             categories[x].sub_category_name = slides[j].name
                 => categories[x].url # slides[j].url

\* Two parents; the first child of the first parent links to the parent
\* itself and is left out, the second one links to the other parent and is
\* kept.
C19_Witness ==
    /\ phase = "returned"
    /\ Len(slides) = 2
    /\ slides[1].url # slides[2].url
    /\ Len(slides[1].children) = 2 /\ Kept(1) = {2}
    /\ slides[1].children[2].url = slides[2].url
    /\ Kept(2) # {}
    /\ Len(categories) = 1 + Cardinality(Kept(2))
    /\ categories[1].name = slides[1].children[2].name

----------------------------------------------------------------------------
\* Chunking

\* The groups 1..g laid end to end.
RECURSIVE Concatenated(_, _)
Concatenated(groups, g) ==
    IF g = 0 THEN <<>> ELSE Concatenated(groups, g - 1) \o groups[g]

\* C21: an input of n >= 1 references is cut into ceil(n / ChunkSize) groups
\* (ChunkSize stands for the code's 1000) that, laid end to end, are the
\* input; no group is empty and every group but the last has ChunkSize
\* references; the flush of each group is done once, in group order: the
\* groups flushed so far are 1..m with m the number of completed groups, and
\* all of them when the run has ended.
C21_ChunkingAndFlushes ==
    LET n == Len(products_urls)
        groups == Groups(products_urls)
    IN (n >= 1 /\ pc \notin {"idle"}) =>
        /\ Len(groups) * ChunkSize >= n
        /\ (Len(groups) - 1) * ChunkSize < n
        /\ Concatenated(groups, Len(groups)) = products_urls
        /\ \A g \in DOMAIN groups :
             /\ Len(groups[g]) >= 1
             /\ g < Len(groups) => Len(groups[g]) = ChunkSize
        /\ pc \notin {"start", "aborted"} =>
             /\ flushes = [g \in 1..Len(flushes) |-> g]
             /\ Len(flushes) = IF pc = "done" THEN Len(groups) ELSE i - 1

\* Five references were cut into groups of 2, 2 and 1, and the run ended
\* after three flushes.
C21_Witness ==
    /\ pc = "done"
    /\ Len(products_urls) = 2 * ChunkSize + 1
    /\ Len(Groups(products_urls)) = 3
    /\ Len(Groups(products_urls)[3]) = 1
    /\ flushes = <<1, 2, 3>>

====
